---- MODULE Spec2Model ----
(***************************************************************************)
(* Model of evidence/sample_pack_2025Q1/verify.py: the VCP evidence pack   *)
(* verifier (event hashes, hash chain, Merkle root and inclusion proofs,   *)
(* anchors, timeline, and the run_verification orchestrator).              *)
(*                                                                         *)
(* Python values are modelled as records [c, b]: c is the kind of value    *)
(* ("lower"/"upper": a hex string in that letter case, "text": a string  *)
(* that is not hexadecimal, "None": null, "int": a number) and b is the    *)
(* sequence of tokens the value denotes.  SHA-256 is modelled as an        *)
(* injective function of its input: Sha256(x) brackets the token sequence  *)
(* x, so that two digests are equal exactly when the inputs are; byte      *)
(* concatenation is sequence concatenation.                                *)
(***************************************************************************)
EXTENDS Integers, Sequences, FiniteSets, TLC

VARIABLES
    event_hashes,   \* verify_merkle_root: the batch's ordered leaf hashes
    expected_root,  \* verify_merkle_root: the claimed root
    root_result,    \* what verify_merkle_root returned
    proof,          \* an inclusion proof {EventHash, AuditPath, MerkleRoot}
    proof_edit,     \* how the proof was changed after it was generated
    proof_result,   \* what verify_merkle_proof returned
    chain_events,   \* verify_hash_chain: the ordered events
    chain_orig,     \* the events before one was inserted, deleted or moved
    chain_edit,     \* what was done to chain_orig
    chain_result,   \* what verify_hash_chain returned
    event_in,       \* verify_event_hash: the event
    event_result,   \* what verify_event_hash returned
    anchor_in,      \* verify_anchor: the anchor record
    anchor_result,  \* what verify_anchor returned
    pc,             \* run_verification: the check it is at
    cursor,         \* run_verification: the unit the current loop is at (from 1)
    events,         \* self.events['events']
    batches,        \* self.batches['batches']
    anchors,        \* self.anchors['anchors']
    results,        \* run_verification: results
    event_pass,     \* run_verification: event_pass
    event_fail,     \* run_verification: event_fail
    ret             \* what run_verification returned

merkle_vars == <<event_hashes, expected_root, root_result, proof, proof_edit, proof_result>>

chain_vars == <<chain_events, chain_orig, chain_edit, chain_result>>

event_vars == <<event_in, event_result>>

anchor_vars == <<anchor_in, anchor_result>>

run_vars == <<pc, cursor, events, batches, anchors, results, event_pass, event_fail, ret>>

vars == <<merkle_vars, chain_vars, event_vars, anchor_vars, run_vars>>

-----------------------------------------------------------------------------
(* Bounds *)

MaxLeaves == 4

MaxChain == 3

MaxEvents == 2

MaxBatches == 2

MaxAnchors == 2

-----------------------------------------------------------------------------
(* Python values *)

None == [c |-> "None", b |-> <<>>]

HexOf(bytes) == [c |-> "lower", b |-> bytes]

UpperOf(v) == [c |-> "upper", b |-> v.b]

NotHex == [c |-> "text", b |-> <<"zz">>]

IsStr(v) == v.c \in {"lower", "upper", "text"}

IsHex(v) == v.c \in {"lower", "upper"}

\* str.lower(): the letter case is dropped, the characters are kept
Lower(v) == IF v.c = "upper" THEN [c |-> "lower", b |-> v.b] ELSE v

\* bytes.fromhex(): the bytes a hex string denotes, whatever its letter case
FromHex(v) == v.b

\* str.encode('utf-8'): the characters of the string, letter case included
Encode(v) == <<v.c>> \o v.b

\* hashlib.sha256(x).digest()
Sha256(x) == <<"[">> \o x \o <<"]">>

LEAF_PREFIX == <<"00">>

INTERNAL_PREFIX == <<"01">>

\* a pending result: the check has not run
NoResult == [passed |-> FALSE, message |-> "", details |-> [none |-> TRUE], exc |-> "pending"]

Pending(r) == r.exc = "pending"

\* a VerificationResult (exc = ""), or an exception that left the function
VerificationResult(passed, message, details) ==
    [passed |-> passed, message |-> message, details |-> details, exc |-> ""]

NoDetails == [none |-> TRUE]

Raised(kind) == [passed |-> FALSE, message |-> "", details |-> NoDetails, exc |-> kind]

IsResult(r) == r.exc = ""

compute_sha256(data) == HexOf(Sha256(Encode(data)))

compute_merkle_hash(data, is_leaf) ==
    Sha256((IF is_leaf THEN LEAF_PREFIX ELSE INTERNAL_PREFIX) \o data)

-----------------------------------------------------------------------------
(* verify_merkle_root *)

\* line 247: the leaf nodes, in the order of the list
BuildLeaves(hashes) ==
    [i \in 1..Len(hashes) |-> compute_merkle_hash(FromHex(hashes[i]), TRUE)]

\* lines 252-258 with the last node of an odd level dropped
NextLevelDropOdd(current) ==
    [j \in 1..(Len(current) \div 2) |->
        compute_merkle_hash(current[2 * j - 1] \o current[2 * j], FALSE)]

\* lines 252-258: one level up; the last node of an odd level pairs with itself
NextLevel(current) ==
    [j \in 1..((Len(current) + 1) \div 2) |->
        LET left == current[2 * j - 1]
            right == IF 2 * j <= Len(current) THEN current[2 * j] ELSE current[2 * j - 1]
        IN compute_merkle_hash(left \o right, FALSE)]

RECURSIVE BuildTree(_)
\* lines 250-259: while len(current) > 1
BuildTree(current) ==
    IF Len(current) > 1 THEN BuildTree(NextLevel(current)) ELSE current

verify_merkle_root(hashes, expected) ==
    IF hashes = <<>>
    THEN VerificationResult(FALSE, "No event hashes", NoDetails)
    ELSE IF \E i \in 1..Len(hashes) : ~IsHex(hashes[i])
    THEN VerificationResult(FALSE, "Merkle reconstruction error", NoDetails)
    ELSE LET computed_root == HexOf(BuildTree(BuildLeaves(hashes))[1])
         IN IF ~IsStr(expected)
            THEN VerificationResult(FALSE, "Merkle reconstruction error", NoDetails)
            ELSE IF computed_root = Lower(expected)
            THEN VerificationResult(TRUE, "Merkle root verified by tree reconstruction",
                     [computed_root |-> computed_root, leaf_count |-> Len(hashes)])
            ELSE VerificationResult(FALSE, "Merkle root MISMATCH on reconstruction",
                     [computed_root |-> computed_root, expected_root |-> expected])

-----------------------------------------------------------------------------
(* verify_merkle_proof *)

\* lines 202-207 with the two operands exchanged
WalkStepSwapped(current, step) ==
    LET sibling == FromHex(step.hash)
        combined == IF step.position = "left" THEN current \o sibling ELSE sibling \o current
    IN compute_merkle_hash(combined, FALSE)

\* lines 202-207 with the position never read
WalkStepIgnoresPosition(current, step) ==
    compute_merkle_hash(current \o FromHex(step.hash), FALSE)

\* lines 202-207: a sibling on the left is the left operand, any other
\* position puts the current node on the left
WalkStep(current, step) ==
    LET sibling == FromHex(step.hash)
        combined == IF step.position = "left" THEN sibling \o current ELSE current \o sibling
    IN compute_merkle_hash(combined, FALSE)

RECURSIVE WalkPath(_, _, _)
\* lines 201-208: for i, step in enumerate(audit_path)
WalkPath(current, audit_path, i) ==
    IF i > Len(audit_path) THEN current
    ELSE WalkPath(WalkStep(current, audit_path[i]), audit_path, i + 1)

verify_merkle_proof(event_hash, audit_path, merkle_root) ==
    IF ~IsHex(event_hash)
    THEN VerificationResult(FALSE, "Merkle verification error", NoDetails)
    ELSE IF \E i \in 1..Len(audit_path) : ~IsHex(audit_path[i].hash)
    THEN VerificationResult(FALSE, "Merkle verification error", NoDetails)
    ELSE LET leaf == compute_merkle_hash(FromHex(event_hash), TRUE)
             computed_root == HexOf(WalkPath(leaf, audit_path, 1))
         IN IF ~IsStr(merkle_root)
            THEN VerificationResult(FALSE, "Merkle verification error", NoDetails)
            ELSE IF computed_root = Lower(merkle_root)
            THEN VerificationResult(TRUE, "Merkle proof cryptographically verified",
                     [computed_root |-> computed_root, expected_root |-> merkle_root,
                      audit_path_length |-> Len(audit_path)])
            ELSE VerificationResult(FALSE, "Merkle root MISMATCH",
                     [computed_root |-> computed_root, expected_root |-> merkle_root])

-----------------------------------------------------------------------------
(* compute_event_hash and verify_event_hash *)

\* a key the mapping does not hold
Absent == [c |-> "absent", b |-> <<>>]

\* a JSON number
IntVal(n) == [c |-> "int", n |-> n]

Text(tokens) == [c |-> "text", b |-> tokens]

EmptyStr == Text(<<>>)

\* dict.get(key, default): a key that is absent gives the default
Get(v, default) == IF v.c = "absent" THEN default ELSE v

\* json.dumps of a scalar: null, a number, or a quoted string
CanonicalValue(v) ==
    IF v.c = "None" THEN <<"null">>
    ELSE IF v.c = "int" THEN <<ToString(v.n)>>
    ELSE <<"quote">> \o Encode(v) \o <<"quote">>

\* one key of a mapping as json.dumps writes it; an absent key writes nothing
CanonicalField(key, v) ==
    IF v.c = "absent" THEN <<>> ELSE <<key, ":">> \o CanonicalValue(v) \o <<",">>

\* line 59-60: the header without EventHash, its keys in sorted order
CanonicalHeader(header) ==
    <<"{">> \o CanonicalField("EventID", header.EventID)
            \o CanonicalField("PrevHash", header.PrevHash)
            \o CanonicalField("TimestampInt", header.TimestampInt) \o <<"}">>

\* line 61: the payload, every top-level key of the event but Header
CanonicalPayload(payload) == <<"{">> \o CanonicalField("Data", payload.Data) \o <<"}">>

\* lines 54-63: the digest of the two canonical strings, header first
compute_event_hash(header, payload) ==
    compute_sha256(Text(CanonicalHeader(header) \o CanonicalPayload(payload)))

\* line 127: computed_hash == stored_hash
HashesMatch(computed_hash, stored_hash) == computed_hash = stored_hash

\* x[:16]: only a string can be sliced
Sliceable(v) == IsStr(v)

verify_event_hash(event) ==
    LET header == event.Header
        stored_hash == Get(header.EventHash, EmptyStr)
        payload == [Data |-> event.Data]
        computed_hash == compute_event_hash(header, payload)
        details == [event_id |-> Get(header.EventID, None),
                    computed_hash |-> computed_hash, stored_hash |-> stored_hash]
    IN IF HashesMatch(computed_hash, stored_hash)
       THEN IF ~Sliceable(Get(header.EventID, Text(<<"unknown">>)))
            THEN Raised("TypeError")
            ELSE VerificationResult(TRUE, "Event hash cryptographically verified", details)
       ELSE VerificationResult(FALSE, "Event hash MISMATCH", details)

-----------------------------------------------------------------------------
(* verify_anchor *)

LOCAL_FILE == Text(<<"LOCAL_FILE">>)

\* line 301 comparing the two digests with the letter case set aside
ProofMatchesAnyCase(computed_proof, proof_hash) ==
    IsHex(proof_hash) /\ computed_proof.b = proof_hash.b

\* line 301: computed_proof == proof_hash
ProofMatches(computed_proof, proof_hash) == computed_proof = proof_hash

verify_anchor(anchor) ==
    LET anchor_type == Get(anchor.AnchorTarget, Text(<<"UNKNOWN">>))
    IN IF anchor_type = LOCAL_FILE
       THEN LET anchor_proof == Get(anchor.AnchorProof, [c |-> "dict", sha256 |-> Absent])
                merkle_root == Get(anchor.MerkleRoot, EmptyStr)
            IN IF anchor_proof.c # "dict" THEN Raised("AttributeError")
               ELSE IF ~IsStr(merkle_root) THEN Raised("AttributeError")
               ELSE LET proof_hash == Get(anchor_proof.sha256, EmptyStr)
                        computed_proof == compute_sha256(merkle_root)
                    IN IF ProofMatches(computed_proof, proof_hash)
                       THEN VerificationResult(TRUE, "Anchor verified",
                                [anchor_type |-> LOCAL_FILE, merkle_root |-> merkle_root,
                                 proof_verified |-> TRUE])
                       ELSE VerificationResult(FALSE, "Anchor proof hash mismatch",
                                [computed |-> computed_proof, stored |-> proof_hash])
       ELSE VerificationResult(TRUE, "Anchor structure valid (external verification required)",
                [anchor_type |-> anchor_type])

-----------------------------------------------------------------------------
(* verify_timeline *)

RECURSIVE TimelineScan(_, _, _, _)
\* lines 332-343; prev_timestamp is None before the first event and after an
\* event whose TimestampInt is null; an order between a number and a value
\* that is not one raises TypeError
TimelineScan(evts, i, prev_timestamp, out_of_order) ==
    IF i > Len(evts) THEN [raised |-> FALSE, out_of_order |-> out_of_order]
    ELSE LET header == evts[i].Header
             current_ts == Get(header.TimestampInt, IntVal(0))
         IN IF prev_timestamp.c # "None" /\ (current_ts.c # "int" \/ prev_timestamp.c # "int")
            THEN [raised |-> TRUE, out_of_order |-> out_of_order]
            ELSE TimelineScan(evts, i + 1, current_ts,
                     IF prev_timestamp.c # "None" /\ current_ts.n < prev_timestamp.n
                     THEN Append(out_of_order,
                              [event_index |-> i - 1, event_id |-> Get(header.EventID, None)])
                     ELSE out_of_order)

verify_timeline(evts) ==
    LET scan == TimelineScan(evts, 1, None, <<>>)
    IN IF scan.raised THEN Raised("TypeError")
       ELSE IF scan.out_of_order # <<>>
       THEN VerificationResult(FALSE, "events out of order",
                [out_of_order |-> scan.out_of_order])
       ELSE VerificationResult(TRUE, "Timeline chronology verified", NoDetails)

-----------------------------------------------------------------------------
(* verify_hash_chain *)

RECURSIVE ChainScanStopsAtFirst(_, _, _, _)
\* lines 156-173 leaving the loop at the first break
ChainScanStopsAtFirst(evts, i, prev_hash, chain_errors) ==
    IF i > Len(evts) \/ chain_errors # <<>> THEN chain_errors
    ELSE LET header == evts[i].Header
             current_prev == Get(header.PrevHash, None)
             current_hash == Get(header.EventHash, None)
             errors == IF i # 1 /\ current_prev # prev_hash
                       THEN Append(chain_errors,
                                [event_index |-> i - 1, event_id |-> Get(header.EventID, None),
                                 expected |-> prev_hash, found |-> current_prev])
                       ELSE chain_errors
         IN ChainScanStopsAtFirst(evts, i + 1, current_hash, errors)

RECURSIVE ChainScanNoneMatches(_, _, _, _)
\* lines 156-173 with an event that declares no predecessor never a break
ChainScanNoneMatches(evts, i, prev_hash, chain_errors) ==
    IF i > Len(evts) THEN chain_errors
    ELSE LET header == evts[i].Header
             current_prev == Get(header.PrevHash, None)
             current_hash == Get(header.EventHash, None)
             errors == IF i # 1 /\ current_prev # None /\ current_prev # prev_hash
                       THEN Append(chain_errors,
                                [event_index |-> i - 1, event_id |-> Get(header.EventID, None),
                                 expected |-> prev_hash, found |-> current_prev])
                       ELSE chain_errors
         IN ChainScanNoneMatches(evts, i + 1, current_hash, errors)

RECURSIVE ChainScan(_, _, _, _)
\* lines 156-173: for i, event in enumerate(events), i counted from 1 here
\* and reported from 0 as the code does
ChainScan(evts, i, prev_hash, chain_errors) ==
    IF i > Len(evts) THEN chain_errors
    ELSE LET header == evts[i].Header
             current_prev == Get(header.PrevHash, None)
             current_hash == Get(header.EventHash, None)
             errors == IF i # 1 /\ current_prev # prev_hash
                       THEN Append(chain_errors,
                                [event_index |-> i - 1, event_id |-> Get(header.EventID, None),
                                 expected |-> prev_hash, found |-> current_prev])
                       ELSE chain_errors
         IN ChainScan(evts, i + 1, current_hash, errors)

\* lines 153-173: the loop from its first event, with no break found yet
ScanChain(evts) == ChainScan(evts, 1, None, <<>>)

verify_hash_chain(evts) ==
    LET chain_errors == ScanChain(evts)
    IN IF chain_errors # <<>>
       THEN VerificationResult(FALSE, "Hash chain has breaks", [errors |-> chain_errors])
       ELSE VerificationResult(TRUE, "Hash chain continuity verified",
                [total_events |-> Len(evts)])

-----------------------------------------------------------------------------
(* The prover's side: the audit path of a leaf in the tree of lines 246-259 *)

RECURSIVE TreeLevels(_)
\* every value the variable current takes in the loop of lines 250-259
TreeLevels(current) ==
    IF Len(current) > 1 THEN <<current>> \o TreeLevels(NextLevel(current)) ELSE <<current>>

\* the index, at level d, of the node above leaf k (both from 1)
RECURSIVE NodeIndex(_, _)
NodeIndex(k, d) == IF d = 1 THEN k ELSE (NodeIndex(k, d - 1) + 1) \div 2

\* the sibling of leaf k's ancestor at each level below the root, leaf toward
\* root, with the side it stands on; an unpaired last node is its own sibling
AuditPathOf(hashes, k) ==
    LET levels == TreeLevels(BuildLeaves(hashes))
    IN [d \in 1..(Len(levels) - 1) |->
           LET idx == NodeIndex(k, d)
               level == levels[d]
           IN IF idx % 2 = 1
              THEN [hash |-> HexOf(IF idx + 1 <= Len(level) THEN level[idx + 1] ELSE level[idx]),
                    position |-> "right"]
              ELSE [hash |-> HexOf(level[idx - 1]), position |-> "left"]]

-----------------------------------------------------------------------------
(* The reference construction of the root, top down: node j of level d      *)
(* (level 0: the leaves) is the internal hash of nodes 2j-1 and 2j of the   *)
(* level below, or of node 2j-1 with itself when the level below ends there *)

RefLeaf(h) == Sha256(<<"00">> \o FromHex(h))

RefInternal(left, right) == Sha256(<<"01">> \o left \o right)

RECURSIVE CountAt(_, _)
CountAt(n, d) == IF d = 0 THEN n ELSE (CountAt(n, d - 1) + 1) \div 2

RECURSIVE DepthFrom(_, _)
DepthFrom(n, d) == IF CountAt(n, d) <= 1 THEN d ELSE DepthFrom(n, d + 1)

RECURSIVE RefNode(_, _, _)
RefNode(hashes, d, j) ==
    IF d = 0 THEN RefLeaf(hashes[j])
    ELSE LET left == RefNode(hashes, d - 1, 2 * j - 1)
         IN IF 2 * j <= CountAt(Len(hashes), d - 1)
            THEN RefInternal(left, RefNode(hashes, d - 1, 2 * j))
            ELSE RefInternal(left, left)

ReferenceRoot(hashes) == RefNode(hashes, DepthFrom(Len(hashes), 0), 1)

AllHex(hashes) == \A i \in 1..Len(hashes) : IsHex(hashes[i])

\* equal as hex strings, the letter case set aside
SameHex(x, y) == IsHex(x) /\ IsHex(y) /\ x.b = y.b

-----------------------------------------------------------------------------
(* Inputs *)

HexA == HexOf(<<"a">>)

HexB == HexOf(<<"b">>)

HexC == HexOf(<<"c">>)

\* leaf hashes of a batch whose tree can be built
GoodLeafPool == {HexA, HexB, HexC}

\* leaf hashes as a batch may hold them: upper case and undecodable included
LeafPool == {HexA, HexB, UpperOf(HexA), NotHex}

SeqsUpTo(S, n) == UNION {[1..m -> S] : m \in 0..n}

RootOf(hashes) == HexOf(BuildTree(BuildLeaves(hashes))[1])

\* the claimed roots tried against a leaf list
ExpectedRoots(hashes) ==
    {None, NotHex, HexA}
    \cup (IF hashes # <<>> /\ AllHex(hashes)
          THEN {RootOf(hashes), HexOf(ReferenceRoot(hashes)),
                UpperOf(HexOf(ReferenceRoot(hashes)))}
          ELSE {})

\* an EventID: a string that is not a hash
EventId(i) == [c |-> "text", b |-> <<"E", ToString(i)>>]

InsertedId == [c |-> "text", b |-> <<"X">>]

\* the header fields verify_hash_chain reads
ChainEvent(id, prev, hash) ==
    [Header |-> [EventID |-> id, PrevHash |-> prev, EventHash |-> hash]]

\* stored event hashes; None is a header without the field
ChainHashes == {None, HexA, HexB, HexC}

\* declared predecessor hashes, one of them in upper case
PrevHashes == {None, HexA, HexB, UpperOf(HexA)}

ChainsOfLength(n) ==
    {[i \in 1..n |-> ChainEvent(EventId(i), f[i][1], f[i][2])] :
        f \in [1..n -> PrevHashes \X ChainHashes]}

InsertedEvents == {ChainEvent(InsertedId, ph[1], ph[2]) : ph \in PrevHashes \X ChainHashes}

InsertAt(seq, k, e) == SubSeq(seq, 1, k - 1) \o <<e>> \o SubSeq(seq, k, Len(seq))

RemoveAt(seq, k) == SubSeq(seq, 1, k - 1) \o SubSeq(seq, k + 1, Len(seq))

PrevOf(e) == e.Header.PrevHash

HashOf(e) == e.Header.EventHash

\* every event after the first names the stored hash of the one before it
Linked(evts) == \A i \in 2..Len(evts) : PrevOf(evts[i]) = HashOf(evts[i - 1])

\* an event with the header fields and the payload the verifier reads
Event(id, prev, hash, ts, data) ==
    [Header |-> [EventID |-> id, PrevHash |-> prev, EventHash |-> hash, TimestampInt |-> ts],
     Data |-> data]

\* the digest the producer stores: the event's content hashed as the code does
Hashed(id, prev, ts, data) ==
    compute_event_hash([EventID |-> id, PrevHash |-> prev, EventHash |-> Absent,
                        TimestampInt |-> ts], [Data |-> data])

\* single events: any identifier, predecessor and payload, and a stored hash
\* that is the digest, the digest in upper case, the digest of another
\* payload, null, or absent
EventInputs ==
    {Event(id, prev, hash, ts, data) :
        id \in {EventId(1), None, Absent},
        prev \in {None, HexA, Absent},
        ts \in {IntVal(1), None},
        data \in {Text(<<"d1">>), Text(<<"d2">>)},
        hash \in {None, Absent}} \cup
    {Event(x[1], x[2], IF x[5] = "upper" THEN UpperOf(Hashed(x[1], x[2], x[3], x[4]))
                       ELSE IF x[5] = "stale" THEN Hashed(x[1], x[2], x[3], Text(<<"d0">>))
                       ELSE Hashed(x[1], x[2], x[3], x[4]),
           x[3], x[4]) :
        x \in {EventId(1), None, Absent} \X {None, HexA, Absent} \X {IntVal(1), None}
               \X {Text(<<"d1">>), Text(<<"d2">>)} \X {"same", "upper", "stale"}}

Anchor(id, target, root, anchor_proof) ==
    [AnchorID |-> id, AnchorTarget |-> target, MerkleRoot |-> root, AnchorProof |-> anchor_proof]

ProofDict(v) == [c |-> "dict", sha256 |-> v]

\* anchor records: the kind, the root and the proof each present, absent or null
AnchorInputs ==
    {Anchor(Text(<<"A1">>), target, root, anchor_proof) :
        target \in {LOCAL_FILE, Text(<<"BLOCKCHAIN">>), Absent, None},
        root \in {HexA, UpperOf(HexA), Absent, None},
        anchor_proof \in {Absent, None} \cup
            {ProofDict(v) : v \in {Absent, None, compute_sha256(HexA),
                                   UpperOf(compute_sha256(HexA)),
                                   compute_sha256(UpperOf(HexA)),
                                   compute_sha256(EmptyStr)}}}

\* events of a pack: two that are hashed and linked, the second with its
\* payload changed after hashing, one with a null TimestampInt, one with a
\* null EventID
D1 == Text(<<"d1">>)

G1 == Event(EventId(1), None, Hashed(EventId(1), None, IntVal(1), D1), IntVal(1), D1)

G2 == Event(EventId(2), HashOf(G1), Hashed(EventId(2), HashOf(G1), IntVal(2), D1), IntVal(2), D1)

S2 == Event(EventId(2), HashOf(G1), HashOf(G2), IntVal(2), Text(<<"d2">>))

T2 == Event(EventId(2), HashOf(G1), Hashed(EventId(2), HashOf(G1), None, D1), None, D1)

N2 == Event(None, HashOf(G1), Hashed(None, HashOf(G1), IntVal(2), D1), IntVal(2), D1)

RunEvents == {G1, G2, S2, T2, N2}

Batch(hashes, root, proofs) ==
    [EventHashes |-> hashes, MerkleRoot |-> root, InclusionProofs |-> proofs]

BatchLeaves == <<HexA, HexB>>

BatchRoot == HexOf(ReferenceRoot(BatchLeaves))

GoodProof(k) ==
    [EventHash |-> BatchLeaves[k], EventID |-> EventId(k),
     AuditPath |-> AuditPathOf(BatchLeaves, k), MerkleRoot |-> BatchRoot]

\* batches of a pack: one whose root and proof hold, one with another root,
\* one whose proof has a wrong sibling, one with no leaves and a proof that
\* does not decode, one whose valid proof has a null EventID
RunBatches ==
    {Batch(BatchLeaves, BatchRoot, <<GoodProof(1)>>),
     Batch(BatchLeaves, HexC, <<>>),
     Batch(BatchLeaves, BatchRoot, <<[GoodProof(1) EXCEPT !.AuditPath[1].hash = HexC]>>),
     Batch(<<>>, BatchRoot, <<[GoodProof(2) EXCEPT !.EventHash = NotHex]>>),
     Batch(BatchLeaves, UpperOf(BatchRoot), <<[GoodProof(2) EXCEPT !.EventID = None]>>)}

\* anchors of a pack: a local one that holds, a local one that does not, an
\* external one, a local one whose AnchorProof is null
RunAnchors ==
    {Anchor(Text(<<"A1">>), LOCAL_FILE, BatchRoot, ProofDict(compute_sha256(BatchRoot))),
     Anchor(Text(<<"A2">>), LOCAL_FILE, BatchRoot, ProofDict(compute_sha256(HexC))),
     Anchor(Text(<<"A3">>), Text(<<"BLOCKCHAIN">>), BatchRoot, Absent),
     Anchor(Text(<<"A4">>), LOCAL_FILE, BatchRoot, None)}

NoProof == [EventHash |-> None, AuditPath |-> <<>>, MerkleRoot |-> None, leaf |-> 0]

NoEdit == [kind |-> "none", step |-> 0]

\* the values a sibling hash of a proof over hashes can be changed to
SiblingValues(hashes) ==
    LET levels == TreeLevels(BuildLeaves(hashes))
        nodes == {levels[d][j] : <<d, j>> \in
                     {x \in (1..Len(levels)) \X (1..Len(hashes)) : x[2] <= Len(levels[x[1]])}}
    IN {HexOf(n) : n \in nodes} \cup {UpperOf(HexOf(n)) : n \in nodes}
       \cup {None, NotHex, HexA}

\* the variables of the checks a specification does not exercise
ChainIdle ==
    /\ chain_events = <<>>
    /\ chain_orig = <<>>
    /\ chain_edit = NoEdit
    /\ chain_result = NoResult

MerkleIdle ==
    /\ event_hashes = <<>>
    /\ expected_root = None
    /\ root_result = NoResult
    /\ proof = NoProof
    /\ proof_edit = NoEdit
    /\ proof_result = NoResult

EventIdle == event_in = None /\ event_result = NoResult

AnchorIdle == anchor_in = None /\ anchor_result = NoResult

RunIdle ==
    /\ pc = "idle"
    /\ cursor = 0
    /\ events = <<>>
    /\ batches = <<>>
    /\ anchors = <<>>
    /\ results = NoResult
    /\ event_pass = 0
    /\ event_fail = 0
    /\ ret = NoResult

other_than_merkle == <<chain_vars, event_vars, anchor_vars, run_vars>>

OtherThanMerkleIdle == ChainIdle /\ EventIdle /\ AnchorIdle /\ RunIdle

other_than_chain == <<merkle_vars, event_vars, anchor_vars, run_vars>>

OtherThanChainIdle == MerkleIdle /\ EventIdle /\ AnchorIdle /\ RunIdle

other_than_event == <<merkle_vars, chain_vars, anchor_vars, run_vars>>

OtherThanEventIdle == MerkleIdle /\ ChainIdle /\ AnchorIdle /\ RunIdle

other_than_anchor == <<merkle_vars, chain_vars, event_vars, run_vars>>

OtherThanAnchorIdle == MerkleIdle /\ ChainIdle /\ EventIdle /\ RunIdle

other_than_run == <<merkle_vars, chain_vars, event_vars, anchor_vars>>

OtherThanRunIdle == MerkleIdle /\ ChainIdle /\ EventIdle /\ AnchorIdle

-----------------------------------------------------------------------------
(* SpecRoot: verify_merkle_root applied to any leaf list and claimed root *)

InitRoot ==
    /\ event_hashes \in SeqsUpTo(LeafPool, MaxLeaves)
    /\ expected_root \in ExpectedRoots(event_hashes)
    /\ root_result = NoResult
    /\ proof = NoProof
    /\ proof_edit = NoEdit
    /\ proof_result = NoResult
    /\ OtherThanMerkleIdle

VerifyMerkleRoot ==
    /\ Pending(root_result)
    /\ root_result' = verify_merkle_root(event_hashes, expected_root)
    /\ UNCHANGED <<event_hashes, expected_root, proof, proof_edit, proof_result>>
    /\ UNCHANGED other_than_merkle

NextRoot == VerifyMerkleRoot

SpecRoot == InitRoot /\ [][NextRoot]_vars

-----------------------------------------------------------------------------
(* SpecProof: a proof is generated for a leaf of a batch, possibly changed  *)
(* in one place, and given to verify_merkle_proof                           *)

InitProof ==
    /\ event_hashes \in (SeqsUpTo(GoodLeafPool, MaxLeaves) \ {<<>>})
    /\ expected_root = RootOf(event_hashes)
    /\ root_result = NoResult
    /\ proof = NoProof
    /\ proof_edit = NoEdit
    /\ proof_result = NoResult
    /\ OtherThanMerkleIdle

GenerateProof(k) ==
    /\ proof = NoProof
    /\ proof' = [EventHash |-> event_hashes[k], AuditPath |-> AuditPathOf(event_hashes, k),
                 MerkleRoot |-> expected_root, leaf |-> k]
    /\ UNCHANGED <<event_hashes, expected_root, root_result, proof_edit, proof_result>>
    /\ UNCHANGED other_than_merkle

ChangeSibling(s, h) ==
    /\ proof # NoProof
    /\ proof_edit = NoEdit
    /\ Pending(proof_result)
    /\ h # proof.AuditPath[s].hash
    /\ proof' = [proof EXCEPT !.AuditPath[s].hash = h]
    /\ proof_edit' = [kind |-> "sibling", step |-> s]
    /\ UNCHANGED <<event_hashes, expected_root, root_result, proof_result>>
    /\ UNCHANGED other_than_merkle

FlipPosition(s) ==
    /\ proof # NoProof
    /\ proof_edit = NoEdit
    /\ Pending(proof_result)
    /\ proof' = [proof EXCEPT !.AuditPath[s].position = IF @ = "left" THEN "right" ELSE "left"]
    /\ proof_edit' = [kind |-> "position", step |-> s]
    /\ UNCHANGED <<event_hashes, expected_root, root_result, proof_result>>
    /\ UNCHANGED other_than_merkle

VerifyMerkleProof ==
    /\ proof # NoProof
    /\ Pending(proof_result)
    /\ proof_result' = verify_merkle_proof(proof.EventHash, proof.AuditPath, proof.MerkleRoot)
    /\ UNCHANGED <<event_hashes, expected_root, root_result, proof, proof_edit>>
    /\ UNCHANGED other_than_merkle

NextProof ==
    \/ \E k \in 1..Len(event_hashes) : GenerateProof(k)
    \/ \E s \in 1..Len(proof.AuditPath) : \E h \in SiblingValues(event_hashes) : ChangeSibling(s, h)
    \/ \E s \in 1..Len(proof.AuditPath) : FlipPosition(s)
    \/ VerifyMerkleProof

SpecProof == InitProof /\ [][NextProof]_vars

-----------------------------------------------------------------------------
(* Claims about the Merkle engine *)

\* C9: verify_merkle_root never raises; it passes exactly when the list is
\* non-empty, every entry decodes, and the expected root equals the reference
\* root up to letter case; one leaf gives the leaf hash, four leaves the
\* internal hash of the nodes of (h1,h2) and (h3,h4); an empty list fails with
\* the message "No event hashes".
C9_RootIffReference ==
    ~Pending(root_result) =>
        /\ IsResult(root_result)
        /\ root_result.passed <=>
              /\ event_hashes # <<>>
              /\ AllHex(event_hashes)
              /\ SameHex(expected_root, HexOf(ReferenceRoot(event_hashes)))
        /\ event_hashes = <<>> =>
              ~root_result.passed /\ root_result.message = "No event hashes"
        /\ (root_result.passed /\ Len(event_hashes) = 1) =>
              FromHex(expected_root) = RefLeaf(event_hashes[1])
        /\ (root_result.passed /\ Len(event_hashes) = 4) =>
              FromHex(expected_root) =
                 RefInternal(RefInternal(RefLeaf(event_hashes[1]), RefLeaf(event_hashes[2])),
                             RefInternal(RefLeaf(event_hashes[3]), RefLeaf(event_hashes[4])))
        /\ root_result.passed =>
              /\ root_result.details.leaf_count = Len(event_hashes)
              /\ root_result.details.computed_root = HexOf(ReferenceRoot(event_hashes))

\* a three-leaf batch (an odd level) whose root, written in upper case, passed
C9_Witness ==
    /\ ~Pending(root_result)
    /\ root_result.passed
    /\ Len(event_hashes) = 3
    /\ expected_root.c = "upper"

\* C6: the audit path derived from the tree for any leaf of any non-empty
\* list, given unchanged to verify_merkle_proof with that leaf's event hash
\* and the reconstructed root, passes.
C6_GeneratedProofPasses ==
    (~Pending(proof_result) /\ proof_edit = NoEdit) =>
        /\ IsResult(proof_result)
        /\ proof_result.passed
        /\ proof_result.details.audit_path_length = DepthFrom(Len(event_hashes), 0)

\* the proof of the third leaf of three, whose first sibling is the leaf itself
C6_Witness ==
    /\ ~Pending(proof_result)
    /\ proof_edit = NoEdit
    /\ proof_result.passed
    /\ Len(event_hashes) = 3
    /\ proof.leaf = 3
    /\ proof.AuditPath[1].hash = HexOf(RefLeaf(event_hashes[3]))

\* the step of the generated proof that was changed, as generated
OriginalStep == AuditPathOf(event_hashes, proof.leaf)[proof_edit.step]

\* the node the changed step's sibling is combined with
NodeAtStep ==
    TreeLevels(BuildLeaves(event_hashes))[proof_edit.step][NodeIndex(proof.leaf, proof_edit.step)]

PairwiseDistinct(hashes) ==
    \A i, j \in 1..Len(hashes) : i # j => FromHex(hashes[i]) # FromHex(hashes[j])

\* C7 as stated, for a batch of pairwise distinct leaves: a sibling hash
\* changed to a different value, or a flipped position flag, at any step of
\* the path makes verify_merkle_proof fail.
C7_AnyChangeFails ==
    (~Pending(proof_result) /\ PairwiseDistinct(event_hashes)) =>
        /\ (proof_edit.kind = "sibling"
              /\ ~SameHex(proof.AuditPath[proof_edit.step].hash, OriginalStep.hash))
           => ~proof_result.passed
        /\ proof_edit.kind = "position" => ~proof_result.passed

\* C7 amended: a sibling changed to a value denoting other bytes (or none)
\* fails, one rewritten in another letter case still passes; a flipped flag
\* fails exactly at the steps whose sibling differs from the node it is
\* combined with.
C7_ChangeFailsUnlessSameBytes ==
    ~Pending(proof_result) =>
        /\ IsResult(proof_result)
        /\ proof_edit.kind = "sibling" =>
              (proof_result.passed <=>
                  SameHex(proof.AuditPath[proof_edit.step].hash, OriginalStep.hash))
        /\ proof_edit.kind = "position" =>
              (proof_result.passed <=> FromHex(OriginalStep.hash) = NodeAtStep)

\* a flipped flag on a step with a sibling of its own made the proof fail
C7_Witness ==
    /\ ~Pending(proof_result)
    /\ proof_edit.kind = "position"
    /\ FromHex(OriginalStep.hash) # NodeAtStep
    /\ ~proof_result.passed
    /\ Len(proof.AuditPath) = 2

-----------------------------------------------------------------------------
(* SpecChain: verify_hash_chain applied to any event sequence, and to a     *)
(* linked sequence after one event was inserted or deleted, or after the    *)
(* events were reordered                                                    *)

InitChain ==
    /\ chain_events \in UNION {ChainsOfLength(n) : n \in 0..MaxChain}
    /\ chain_orig = <<>>
    /\ chain_edit = NoEdit
    /\ chain_result = NoResult
    /\ OtherThanChainIdle

Untouched == chain_edit = NoEdit /\ Pending(chain_result) /\ Linked(chain_events)

InsertEvent(k, e) ==
    /\ Untouched
    /\ chain_orig' = chain_events
    /\ chain_events' = InsertAt(chain_events, k, e)
    /\ chain_edit' = [kind |-> "insert", step |-> k]
    /\ UNCHANGED chain_result
    /\ UNCHANGED other_than_chain

DeleteEvent(k) ==
    /\ Untouched
    /\ chain_orig' = chain_events
    /\ chain_events' = RemoveAt(chain_events, k)
    /\ chain_edit' = [kind |-> "delete", step |-> k]
    /\ UNCHANGED chain_result
    /\ UNCHANGED other_than_chain

ReorderEvents(p) ==
    /\ Untouched
    /\ \E j \in DOMAIN p : p[j] # j
    /\ chain_orig' = chain_events
    /\ chain_events' = [j \in 1..Len(chain_events) |-> chain_events[p[j]]]
    /\ chain_edit' = [kind |-> "reorder", step |-> 0]
    /\ UNCHANGED chain_result
    /\ UNCHANGED other_than_chain

VerifyHashChain ==
    /\ Pending(chain_result)
    /\ chain_result' = verify_hash_chain(chain_events)
    /\ UNCHANGED <<chain_events, chain_orig, chain_edit>>
    /\ UNCHANGED other_than_chain

NextChain ==
    \/ \E k \in 1..(Len(chain_events) + 1) : \E e \in InsertedEvents : InsertEvent(k, e)
    \/ \E k \in 1..Len(chain_events) : DeleteEvent(k)
    \/ \E p \in Permutations(1..Len(chain_events)) : ReorderEvents(p)
    \/ VerifyHashChain

SpecChain == InitChain /\ [][NextChain]_vars

-----------------------------------------------------------------------------
(* Claims about the hash chain *)

\* the positions (from 1) whose event does not name the hash of the one before
BreakPositions(evts) == {i \in 2..Len(evts) : PrevOf(evts[i]) # HashOf(evts[i - 1])}

\* the positions (from 1) the result reports, in the order reported
ReportedPositions ==
    IF chain_result.passed THEN <<>>
    ELSE [j \in 1..Len(chain_result.details.errors) |->
             chain_result.details.errors[j].event_index + 1]

ReportedSet == {ReportedPositions[j] : j \in 1..Len(ReportedPositions)}

\* C4: verify_hash_chain passes exactly when every event after the first
\* names the hash of the one before it; otherwise it lists one break per
\* mismatching index, in increasing order, each with index, event id,
\* expected and found hash.
C4_ChainIffLinked ==
    ~Pending(chain_result) =>
        /\ IsResult(chain_result)
        /\ chain_result.passed <=> Linked(chain_events)
        /\ chain_result.passed => chain_result.details.total_events = Len(chain_events)
        /\ Len(ReportedPositions) = Cardinality(BreakPositions(chain_events))
        /\ ReportedSet = BreakPositions(chain_events)
        /\ \A j \in 1..Len(ReportedPositions) :
              LET err == chain_result.details.errors[j]
                  pos == ReportedPositions[j]
              IN /\ j > 1 => ReportedPositions[j - 1] < pos
                 /\ err.event_id = chain_events[pos].Header.EventID
                 /\ err.expected = HashOf(chain_events[pos - 1])
                 /\ err.found = PrevOf(chain_events[pos])

\* two breaks were listed, after a first event that declares a predecessor
C4_Witness ==
    /\ ~Pending(chain_result)
    /\ ~chain_result.passed
    /\ Len(chain_result.details.errors) = 2
    /\ PrevOf(chain_events[1]) # None

DistinctHashes(evts) ==
    \A i, j \in 1..Len(evts) : i # j => HashOf(evts[i]) # HashOf(evts[j])

\* C5 as stated, for a deletion (the claim names the first and the last
\* position) from a sequence of two or more events with distinct hashes that
\* passed: verify_hash_chain reports at least one break.
C5_AnyDeletionBreaks ==
    (/\ ~Pending(chain_result)
     /\ chain_edit.kind = "delete"
     /\ Len(chain_orig) >= 2
     /\ DistinctHashes(chain_orig)) => ~chain_result.passed

\* the positions of the reordered sequence whose predecessor is not the one
\* the event had before
Disturbed ==
    {j \in 2..Len(chain_events) :
        ~\E i \in 2..Len(chain_orig) :
            chain_events[j] = chain_orig[i] /\ chain_events[j - 1] = chain_orig[i - 1]}

\* C5 amended: with pairwise distinct event hashes, deleting an interior
\* event reports exactly one break, at the event that followed it; inserting
\* an event between two events reports a break at the event that now follows
\* it; reordering reports a break at every position whose predecessor changed,
\* and at least one, when the first event's PrevHash is no event's hash.
\* Deleting the first or the last event reports nothing, and an event put
\* before the first or after the last is reported only on its own linkage.
C5_InteriorEditBreaks ==
    (~Pending(chain_result) /\ chain_edit # NoEdit) =>
        LET n == Len(chain_orig)
            k == chain_edit.step
        IN /\ (chain_edit.kind = "delete" /\ DistinctHashes(chain_orig)) =>
                 IF 1 < k /\ k < n THEN ReportedPositions = <<k>>
                 ELSE chain_result.passed
           /\ (chain_edit.kind = "insert" /\ DistinctHashes(chain_events)) =>
                 IF 1 < k /\ k <= n
                 THEN k + 1 \in ReportedSet /\ ReportedSet \subseteq {k, k + 1}
                 ELSE IF n = 0 THEN chain_result.passed
                 ELSE IF k = 1
                 THEN chain_result.passed <=> PrevOf(chain_orig[1]) = HashOf(chain_events[1])
                 ELSE chain_result.passed <=> PrevOf(chain_events[k]) = HashOf(chain_orig[n])
           /\ (/\ chain_edit.kind = "reorder"
               /\ DistinctHashes(chain_orig)
               /\ \A i \in 1..n : PrevOf(chain_orig[1]) # HashOf(chain_orig[i])) =>
                 ReportedSet = Disturbed /\ ReportedSet # {}

\* the middle event of three was deleted and the break is at its successor
C5_Witness ==
    /\ ~Pending(chain_result)
    /\ chain_edit = [kind |-> "delete", step |-> 2]
    /\ Len(chain_orig) = 3
    /\ DistinctHashes(chain_orig)
    /\ ~chain_result.passed
    /\ chain_result.details.errors[1].event_index = 1
    /\ chain_result.details.errors[1].event_id = chain_orig[3].Header.EventID

-----------------------------------------------------------------------------
(* SpecEvent: verify_event_hash applied to one event *)

InitEvent ==
    /\ event_in \in EventInputs
    /\ event_result = NoResult
    /\ OtherThanEventIdle

VerifyEventHash ==
    /\ Pending(event_result)
    /\ event_result' = verify_event_hash(event_in)
    /\ UNCHANGED event_in
    /\ UNCHANGED other_than_event

NextEvent == VerifyEventHash

SpecEvent == InitEvent /\ [][NextEvent]_vars

-----------------------------------------------------------------------------
(* SpecAnchor: verify_anchor applied to one anchor record *)

InitAnchor ==
    /\ anchor_in \in AnchorInputs
    /\ anchor_result = NoResult
    /\ OtherThanAnchorIdle

VerifyAnchor ==
    /\ Pending(anchor_result)
    /\ anchor_result' = verify_anchor(anchor_in)
    /\ UNCHANGED anchor_in
    /\ UNCHANGED other_than_anchor

NextAnchor == VerifyAnchor

SpecAnchor == InitAnchor /\ [][NextAnchor]_vars

-----------------------------------------------------------------------------
(* Claims about single events and anchors *)

\* C8 as stated, for an event whose EventID is a string: verify_event_hash
\* passes exactly when the digest of the canonical header (without EventHash)
\* followed by the canonical payload equals the stored hash, the letter case
\* of the hex digits set aside.
C8_PassIffDigestAnyCase ==
    (~Pending(event_result) /\ IsStr(Get(event_in.Header.EventID, EmptyStr))) =>
        (event_result.passed <=>
            SameHex(Get(event_in.Header.EventHash, EmptyStr),
                    compute_event_hash(event_in.Header, [Data |-> event_in.Data])))

\* SHA-256 of a string, as the anchor's producer computes it
RefDigestOfString(v) == HexOf(Sha256(Encode(v)))

StructuralMessage == "Anchor structure valid (external verification required)"

\* C10: a LOCAL_FILE anchor whose root is a string (or absent, read as the
\* empty string) and whose proof is a mapping (or absent) passes exactly when
\* AnchorProof.sha256 is the digest of the root string, character for
\* character, and otherwise fails with the computed and the stored value;
\* every other kind, absent and null included, passes whatever the root and
\* the proof hold, with a message and an anchor_type detail of its own.
C10_AnchorByKind ==
    ~Pending(anchor_result) =>
        LET target == Get(anchor_in.AnchorTarget, Text(<<"UNKNOWN">>))
            root == Get(anchor_in.MerkleRoot, EmptyStr)
            stored == IF anchor_in.AnchorProof.c = "dict"
                      THEN Get(anchor_in.AnchorProof.sha256, EmptyStr) ELSE EmptyStr
        IN /\ (/\ target = LOCAL_FILE
               /\ IsStr(root)
               /\ anchor_in.AnchorProof.c \in {"dict", "absent"}) =>
                 /\ IsResult(anchor_result)
                 /\ anchor_result.passed <=> stored = RefDigestOfString(root)
                 /\ anchor_result.passed =>
                       /\ anchor_result.message = "Anchor verified"
                       /\ anchor_result.details.anchor_type = LOCAL_FILE
                       /\ anchor_result.details.proof_verified
                 /\ ~anchor_result.passed =>
                       /\ anchor_result.details.computed = RefDigestOfString(root)
                       /\ anchor_result.details.stored = stored
           /\ target # LOCAL_FILE =>
                 /\ IsResult(anchor_result)
                 /\ anchor_result.passed
                 /\ anchor_result.message = StructuralMessage
                 /\ anchor_result.details = [anchor_type |-> target]

\* a LOCAL_FILE anchor failed on a digest stored in upper case
C10_Witness ==
    /\ ~Pending(anchor_result)
    /\ anchor_in.AnchorTarget = LOCAL_FILE
    /\ anchor_in.MerkleRoot = HexA
    /\ anchor_in.AnchorProof = ProofDict(UpperOf(compute_sha256(HexA)))
    /\ IsResult(anchor_result)
    /\ ~anchor_result.passed

-----------------------------------------------------------------------------
(* SpecRun: run_verification over a loaded pack, one action per unit of a   *)
(* loop and one per whole-sequence check                                    *)

Phases ==
    <<"event_hashes", "hash_chain", "merkle_root", "merkle_proofs", "anchors", "timeline",
      "overall">>

\* a loop over an empty list has no iteration
HasWork(phase) ==
    CASE phase = "event_hashes" -> events # <<>>
      [] phase \in {"merkle_root", "merkle_proofs"} -> batches # <<>>
      [] phase = "anchors" -> anchors # <<>>
      [] OTHER -> TRUE

RECURSIVE PhaseFrom(_)
\* the first check from the n-th on that has something to do
PhaseFrom(n) == IF HasWork(Phases[n]) THEN Phases[n] ELSE PhaseFrom(n + 1)

\* lines 369-376
EmptyResults ==
    [event_hashes |-> <<>>, merkle_proofs |-> <<>>, merkle_root |-> NoResult,
     anchors |-> <<>>, hash_chain |-> NoResult, timeline |-> NoResult]

InitRun ==
    /\ events \in SeqsUpTo(RunEvents, MaxEvents)
    /\ batches \in SeqsUpTo(RunBatches, MaxBatches)
    /\ anchors \in SeqsUpTo(RunAnchors, MaxAnchors)
    /\ results = EmptyResults
    /\ event_pass = 0
    /\ event_fail = 0
    /\ cursor = 1
    /\ pc = PhaseFrom(1)
    /\ ret = NoResult
    /\ OtherThanRunIdle

\* an exception leaves run_verification: nothing is returned
Raise ==
    /\ pc' = "raised"
    /\ UNCHANGED <<cursor, ret>>

\* the next unit of the loop, or the next check after its last unit
Advance(n, length) ==
    /\ IF cursor < length
       THEN pc' = pc /\ cursor' = cursor + 1
       ELSE pc' = PhaseFrom(n + 1) /\ cursor' = 1
    /\ UNCHANGED ret

\* lines 391-398: one event
EventHashStep ==
    /\ pc = "event_hashes"
    /\ LET result == verify_event_hash(events[cursor])
       IN IF ~IsResult(result)
          THEN Raise /\ UNCHANGED <<results, event_pass, event_fail>>
          ELSE /\ results' = [results EXCEPT !.event_hashes = Append(@, result)]
               /\ event_pass' = IF result.passed THEN event_pass + 1 ELSE event_pass
               /\ event_fail' = IF result.passed THEN event_fail ELSE event_fail + 1
               /\ Advance(1, Len(events))
    /\ UNCHANGED <<events, batches, anchors>>
    /\ UNCHANGED other_than_run

\* lines 406-413
HashChainStep ==
    /\ pc = "hash_chain"
    /\ results' = [results EXCEPT !.hash_chain = verify_hash_chain(events)]
    /\ Advance(2, 1)
    /\ UNCHANGED <<events, batches, anchors, event_pass, event_fail>>
    /\ UNCHANGED other_than_run

\* lines 417-428: one batch; the result is stored under the one key
MerkleRootStep ==
    /\ pc = "merkle_root"
    /\ LET batch == batches[cursor]
           result == verify_merkle_root(batch.EventHashes, batch.MerkleRoot)
       IN results' = [results EXCEPT !.merkle_root = result]
    /\ Advance(3, Len(batches))
    /\ UNCHANGED <<events, batches, anchors, event_pass, event_fail>>
    /\ UNCHANGED other_than_run

RECURSIVE ProofsScan(_, _, _)
\* lines 436-448: the proofs of one batch; the line printed for a proof that
\* passed slices its EventID
ProofsScan(proofs, j, acc) ==
    IF j > Len(proofs) THEN [raised |-> FALSE, merkle_proofs |-> acc]
    ELSE LET result == verify_merkle_proof(proofs[j].EventHash, proofs[j].AuditPath,
                                           proofs[j].MerkleRoot)
         IN IF result.passed /\ ~Sliceable(Get(proofs[j].EventID, Text(<<"unknown">>)))
            THEN [raised |-> TRUE, merkle_proofs |-> Append(acc, result)]
            ELSE ProofsScan(proofs, j + 1, Append(acc, result))

\* lines 434-448: one batch
MerkleProofsStep ==
    /\ pc = "merkle_proofs"
    /\ LET scan == ProofsScan(batches[cursor].InclusionProofs, 1, results.merkle_proofs)
       IN /\ results' = [results EXCEPT !.merkle_proofs = scan.merkle_proofs]
          /\ IF scan.raised THEN Raise ELSE Advance(4, Len(batches))
    /\ UNCHANGED <<events, batches, anchors, event_pass, event_fail>>
    /\ UNCHANGED other_than_run

\* lines 456-463: one anchor
AnchorStep ==
    /\ pc = "anchors"
    /\ LET result == verify_anchor(anchors[cursor])
       IN IF ~IsResult(result)
          THEN Raise /\ UNCHANGED results
          ELSE /\ results' = [results EXCEPT !.anchors = Append(@, result)]
               /\ Advance(5, Len(anchors))
    /\ UNCHANGED <<events, batches, anchors, event_pass, event_fail>>
    /\ UNCHANGED other_than_run

\* lines 468-472
TimelineStep ==
    /\ pc = "timeline"
    /\ LET result == verify_timeline(events)
       IN IF ~IsResult(result)
          THEN Raise /\ UNCHANGED results
          ELSE /\ results' = [results EXCEPT !.timeline = result]
               /\ Advance(6, 1)
    /\ UNCHANGED <<events, batches, anchors, event_pass, event_fail>>
    /\ UNCHANGED other_than_run

AllPassed(rs) == \A j \in 1..Len(rs) : rs[j].passed

\* lines 476-483
all_passed ==
    /\ event_fail = 0
    /\ results.hash_chain.passed
    /\ (Pending(results.merkle_root) \/ results.merkle_root.passed)
    /\ AllPassed(results.merkle_proofs)
    /\ AllPassed(results.anchors)
    /\ results.timeline.passed

\* lines 476-507
OverallStep ==
    /\ pc = "overall"
    /\ ret' = [passed |-> all_passed, results |-> results,
               summary |-> [total_events |-> Len(events), total_batches |-> Len(batches),
                            total_anchors |-> Len(anchors), event_hash_pass |-> event_pass,
                            event_hash_fail |-> event_fail],
               exc |-> ""]
    /\ pc' = "done"
    /\ UNCHANGED <<cursor, events, batches, anchors, results, event_pass, event_fail>>
    /\ UNCHANGED other_than_run

NextRun ==
    \/ EventHashStep
    \/ HashChainStep
    \/ MerkleRootStep
    \/ MerkleProofsStep
    \/ AnchorStep
    \/ TimelineStep
    \/ OverallStep

SpecRun == InitRun /\ [][NextRun]_vars

-----------------------------------------------------------------------------
(* Claims about run_verification *)

ProofPasses(p) == verify_merkle_proof(p.EventHash, p.AuditPath, p.MerkleRoot).passed

\* every check of every unit of the pack passed
EveryCheckPassed ==
    /\ \A j \in 1..Len(events) : verify_event_hash(events[j]).passed
    /\ verify_hash_chain(events).passed
    /\ \A j \in 1..Len(batches) :
          verify_merkle_root(batches[j].EventHashes, batches[j].MerkleRoot).passed
    /\ \A j \in 1..Len(batches) :
          \A q \in 1..Len(batches[j].InclusionProofs) :
             ProofPasses(batches[j].InclusionProofs[q])
    /\ \A j \in 1..Len(anchors) : verify_anchor(anchors[j]).passed
    /\ verify_timeline(events).passed

\* C1 as stated: the verdict run_verification returns is true exactly when
\* every event-hash check, the chain check, every batch's root check, every
\* inclusion-proof check, every anchor check and the timeline check passed.
C1_VerdictIffEveryCheck ==
    pc = "done" => (ret.passed <=> EveryCheckPassed)

\* the batch root results the returned result set holds
RootResultsKept ==
    IF Pending(ret.results.merkle_root) THEN <<>> ELSE <<ret.results.merkle_root>>

RECURSIVE CountProofs(_)
CountProofs(bs) ==
    IF bs = <<>> THEN 0 ELSE Len(Head(bs).InclusionProofs) + CountProofs(Tail(bs))

\* C2 as stated: the returned result set holds one result per event, per
\* batch root check, per inclusion proof and per anchor.
C2_OneResultPerUnit ==
    pc = "done" =>
        /\ Len(ret.results.event_hashes) = Len(events)
        /\ Len(RootResultsKept) = Len(batches)
        /\ Len(ret.results.merkle_proofs) = CountProofs(batches)
        /\ Len(ret.results.anchors) = Len(anchors)

\* C3 as stated: whatever data error a unit holds, no exception leaves a
\* check and run_verification goes on to a verdict.
C3_NoExceptionEscapes == pc # "raised"

====
